---- MODULE Spec2Model ----
(***************************************************************************)
(* NLGManager of deeppavlov/models/go_bot/nlg_manager.py: the template     *)
(* collection, the API-call action index, action-id lookup and response    *)
(* decoding.  Text is a sequence of one-character strings.                 *)
(***************************************************************************)
EXTENDS Integers, Sequences, FiniteSets, TLC

VARIABLES
    source,           \* the records of the template file, in file order
    template_type,    \* the declared template syntax
    dup_policy,       \* the loader's policy on a repeated action label
    api_call_action,  \* the constructor's api_call_action argument
    phase,            \* "new" | "ready" | "failed"
    ctor_error,       \* the exception that ended __init__, or "none"
    templates,        \* self.templates: sequence of [action, template]
    api_call_id,      \* self.api_call_id
    call,             \* the last method call and its arguments
    outcome,          \* "none" | "returned" | the exception raised
    ret               \* the value returned by the last call

vars == <<source, template_type, dup_policy, api_call_action, phase,
          ctor_error, templates, api_call_id, call, outcome, ret>>

(* ------------------------------ bounds -------------------------------- *)

MaxRecords == 2

(* ------------------------------ characters ---------------------------- *)

LowerLetters ==
    <<"a","b","c","d","e","f","g","h","i","j","k","l","m",
      "n","o","p","q","r","s","t","u","v","w","x","y","z">>

UpperLetters ==
    <<"A","B","C","D","E","F","G","H","I","J","K","L","M",
      "N","O","P","Q","R","S","T","U","V","W","X","Y","Z">>

IsUpper(c) == \E i \in 1..26 : UpperLetters[i] = c

IsLower(c) == \E i \in 1..26 : LowerLetters[i] = c

\* the character class [A-Za-z] of the pattern
IsLetter(c) == IsUpper(c) \/ IsLower(c)

lower_char(c) ==
    IF IsUpper(c) THEN LowerLetters[CHOOSE i \in 1..26 : UpperLetters[i] = c]
    ELSE c

\* str.lower()
lower(t) == [i \in 1..Len(t) |-> lower_char(t[i])]

Dontcare == <<"d","o","n","t","c","a","r","e">>

(* ------------------------------ re.sub -------------------------------- *)

\* the last index of the greedy run [A-Za-z]+ that starts at j
LetterRunEnd(t, j) ==
    CHOOSE k \in j..Len(t) :
        /\ \A m \in j..k : IsLetter(t[m])
        /\ (k = Len(t) \/ ~IsLetter(t[k + 1]))

MatchesAt(t, i) ==
    /\ i + 1 <= Len(t)
    /\ t[i] = "#"
    /\ IsLetter(t[i + 1])

RECURSIVE re_sub_from(_, _)
\* one left-to-right pass: leftmost non-overlapping matches, each replaced
re_sub_from(t, i) ==
    IF i > Len(t) THEN <<>>
    ELSE IF MatchesAt(t, i)
         THEN Dontcare \o re_sub_from(t, LetterRunEnd(t, i + 1) + 1)
         ELSE <<t[i]>> \o re_sub_from(t, i + 1)

RECURSIVE re_sub_first_from(_, _)
re_sub_first_from(t, i) ==
    IF i > Len(t) THEN <<>>
    ELSE IF MatchesAt(t, i)
         THEN Dontcare \o SubSeq(t, LetterRunEnd(t, i + 1) + 1, Len(t))
         ELSE <<t[i]>> \o re_sub_first_from(t, i + 1)

\* re.sub with count=1: only the first marker is replaced
normalize_first_only(t) == lower(re_sub_first_from(t, 1))

\* re.sub("#([A-Za-z]+)", "dontcare", action_text).lower()
normalize(t) == lower(re_sub_from(t, 1))

(* ------------------------------ lists --------------------------------- *)

Actions(coll) == [i \in 1..Len(coll) |-> coll[i].action]

\* list.index(x): [found, pos] with pos the 0-based first position
list_index_one_based(list, x) ==
    IF \E i \in 1..Len(list) : list[i] = x
    THEN [found |-> TRUE,
          pos |-> CHOOSE i \in 1..Len(list) :
                      list[i] = x /\ \A j \in 1..(i - 1) : list[j] # x]
    ELSE [found |-> FALSE, pos |-> 0]

list_index(list, x) ==
    IF \E i \in 1..Len(list) : list[i] = x
    THEN [found |-> TRUE,
          pos |-> (CHOOSE i \in 1..Len(list) :
                      list[i] = x /\ \A j \in 1..(i - 1) : list[j] # x) - 1]
    ELSE [found |-> FALSE, pos |-> 0]

\* list[i] with an upper bound one too small
list_getitem_short(list, i) ==
    IF 0 <= i /\ i < Len(list) - 1 THEN [found |-> TRUE, at |-> i + 1]
    ELSE IF -Len(list) <= i /\ i < 0 THEN [found |-> TRUE, at |-> Len(list) + i + 1]
    ELSE [found |-> FALSE, at |-> 0]

\* list[i]: [found, at] with at the 1-based position read; a negative i
\* counts from the end of the list
list_getitem(list, i) ==
    IF 0 <= i /\ i < Len(list) THEN [found |-> TRUE, at |-> i + 1]
    ELSE IF -Len(list) <= i /\ i < 0 THEN [found |-> TRUE, at |-> Len(list) + i + 1]
    ELSE [found |-> FALSE, at |-> 0]

(* ------------------------------ templates ----------------------------- *)

Area == <<"a","r","e","a">>
Food == <<"f","o","o","d">>

Lit(t) == [kind |-> "literal", text |-> t, slot |-> <<>>]
Ph(s) == [kind |-> "placeholder", text |-> <<>>, slot |-> s]

\* "query area=#area food=#food"
QueryTemplate == <<Lit(<<"q","u","e","r","y"," ","a","r","e","a","=">>), Ph(Area), Lit(<<" ","f","o","o","d","=">>), Ph(Food)>>

\* "The place is in #area area."
InformTemplate == <<Lit(<<"T","h","e"," ","p","l","a","c","e"," ","i","s"," ","i","n"," ">>), Ph(Area), Lit(<<" ","a","r","e","a",".">>)>>

\* "##area"
HashTemplate == <<Lit(<<"#">>), Ph(Area)>>

TemplatePool == {QueryTemplate, InformTemplate, HashTemplate}

Labels == {"api_call", "inform_area"}

\* Python's None, passed as api_call_action
None == "None"

TemplateTypes == {"PlainSyntax", "AlternationSyntax"}

DupPolicies == {"reject", "last_wins"}

NoSlots == <<>>

SlotMaps ==
    { NoSlots,
      Food :> <<"i","t","a","l","i","a","n">>,
      Area :> <<"N","o","r","t","h">>,
      Area :> <<"#","#","N">> }

ActionIds == (0 - (MaxRecords + 1))..(MaxRecords + 1)

Records == [action : Labels, template : TemplatePool]

RECURSIVE SeqsUpTo(_, _)
SeqsUpTo(S, n) ==
    IF n = 0 THEN {<<>>}
    ELSE LET shorter == SeqsUpTo(S, n - 1)
         IN shorter \cup {Append(q, x) : q \in shorter, x \in S}

Sources == SeqsUpTo(Records, MaxRecords)

RECURSIVE render_from(_, _, _, _)
render_from(tpl, slots, ttype, i) ==
    IF i > Len(tpl) THEN <<>>
    ELSE LET seg == tpl[i]
             piece == IF seg.kind = "literal" THEN seg.text
                      ELSE IF seg.slot \in DOMAIN slots THEN slots[seg.slot]
                      ELSE IF ttype = "PlainSyntax" THEN <<>>
                      ELSE <<"#">> \o seg.slot
         IN piece \o render_from(tpl, slots, ttype, i + 1)

\* Template.generate_text(slots)
generate_text(tpl, slots, ttype) == render_from(tpl, slots, ttype, 1)

HasDuplicates(src) ==
    \E i, j \in 1..Len(src) : i < j /\ src[i].action = src[j].action

LastPos(src, a) ==
    CHOOSE i \in 1..Len(src) :
        src[i].action = a /\ \A j \in (i + 1)..Len(src) : src[j].action # a

RECURSIVE load_from(_, _)
load_from(src, i) ==
    IF i > Len(src) THEN <<>>
    ELSE IF \E j \in 1..(i - 1) : src[j].action = src[i].action
         THEN load_from(src, i + 1)
         ELSE <<[action |-> src[i].action,
                 template |-> src[LastPos(src, src[i].action)].template]>>
              \o load_from(src, i + 1)

\* Templates(template_type).load(template_path): [error, collection]
load(src, policy) ==
    IF policy = "reject" /\ HasDuplicates(src)
    THEN [error |-> "LoadError", collection |-> <<>>]
    ELSE [error |-> "none", collection |-> load_from(src, 1)]

(* ------------------------------ state --------------------------------- *)

NoApiCall == -1

NoCall == [op |-> "none", action_text |-> "", action_id |-> 0, slots |-> NoSlots]

NoValue == [int |-> 0, text |-> <<>>]

Init ==
    /\ source \in Sources
    /\ template_type \in TemplateTypes
    /\ dup_policy \in DupPolicies
    /\ api_call_action \in Labels \cup {None}
    /\ phase = "new"
    /\ ctor_error = "none"
    /\ templates = <<>>
    /\ api_call_id = NoApiCall
    /\ call = NoCall
    /\ outcome = "none"
    /\ ret = NoValue

\* __init__ with the lookup failure swallowed
InitManagerSwallow ==
    /\ phase = "new"
    /\ LET loaded == load(source, dup_policy)
           idx == list_index(Actions(loaded.collection), api_call_action)
       IN IF loaded.error # "none"
          THEN /\ phase' = "failed"
               /\ ctor_error' = loaded.error
               /\ UNCHANGED <<templates, api_call_id>>
          ELSE /\ templates' = loaded.collection
               /\ phase' = "ready"
               /\ ctor_error' = "none"
               /\ api_call_id' = IF api_call_action # None /\ idx.found
                                 THEN idx.pos ELSE NoApiCall
    /\ UNCHANGED <<source, template_type, dup_policy, api_call_action,
                   call, outcome, ret>>

\* NLGManager.__init__
InitManager ==
    /\ phase = "new"
    /\ LET loaded == load(source, dup_policy)
           idx == list_index(Actions(loaded.collection), api_call_action)
       IN IF loaded.error # "none"
          THEN /\ phase' = "failed"
               /\ ctor_error' = loaded.error
               /\ UNCHANGED <<templates, api_call_id>>
          ELSE /\ templates' = loaded.collection
               /\ IF api_call_action = None
                  THEN /\ api_call_id' = NoApiCall
                       /\ phase' = "ready"
                       /\ ctor_error' = "none"
                  ELSE IF idx.found
                  THEN /\ api_call_id' = idx.pos
                       /\ phase' = "ready"
                       /\ ctor_error' = "none"
                  ELSE /\ api_call_id' = NoApiCall
                       /\ phase' = "failed"
                       /\ ctor_error' = "ValueError"
    /\ UNCHANGED <<source, template_type, dup_policy, api_call_action,
                   call, outcome, ret>>

Frozen == <<source, template_type, dup_policy, api_call_action, phase, ctor_error>>

\* a lookup that registers an unknown label instead of failing
get_action_id_registering(action_text) ==
    /\ phase = "ready"
    /\ LET idx == list_index(Actions(templates), action_text)
       IN /\ call' = [NoCall EXCEPT !.op = "get_action_id", !.action_text = action_text]
          /\ outcome' = "returned"
          /\ ret' = [NoValue EXCEPT !.int = IF idx.found THEN idx.pos ELSE Len(templates)]
          /\ templates' = IF idx.found THEN templates
                          ELSE Append(templates, [action |-> action_text,
                                                  template |-> <<>>])
    /\ UNCHANGED <<api_call_id, Frozen>>

\* NLGManager.get_action_id
get_action_id(action_text) ==
    /\ phase = "ready"
    /\ LET idx == list_index(Actions(templates), action_text)
       IN /\ call' = [NoCall EXCEPT !.op = "get_action_id", !.action_text = action_text]
          /\ outcome' = IF idx.found THEN "returned" ELSE "ValueError"
          /\ ret' = IF idx.found THEN [NoValue EXCEPT !.int = idx.pos] ELSE NoValue
    /\ UNCHANGED <<templates, api_call_id, Frozen>>

\* NLGManager._generate_slotfilled_text_for_action: [raised, text]
generate_slotfilled_text_for_action(action_id, slots) ==
    LET got == list_getitem(templates, action_id)
    IN IF got.found
       THEN [raised |-> "none",
             text |-> generate_text(templates[got.at].template, slots, template_type)]
       ELSE [raised |-> "IndexError", text |-> <<>>]

\* the API-call branch taken for every action
decode_response_text_always(action_id, action_text) == normalize(action_text)

\* lines 72-74 of decode_response: the text returned for action_text
decode_response_text(action_id, action_text) ==
    IF action_id = api_call_id THEN normalize(action_text) ELSE action_text

\* NLGManager.decode_response
decode_response(action_id, slots) ==
    /\ phase = "ready"
    /\ LET gen == generate_slotfilled_text_for_action(action_id, slots)
       IN /\ call' = [NoCall EXCEPT !.op = "decode_response",
                                    !.action_id = action_id, !.slots = slots]
          /\ outcome' = IF gen.raised = "none" THEN "returned" ELSE gen.raised
          /\ ret' = IF gen.raised = "none"
                    THEN [NoValue EXCEPT !.text = decode_response_text(action_id, gen.text)]
                    ELSE NoValue
    /\ UNCHANGED <<templates, api_call_id, Frozen>>

\* NLGManager.num_of_known_actions
num_of_known_actions ==
    /\ phase = "ready"
    /\ call' = [NoCall EXCEPT !.op = "num_of_known_actions"]
    /\ outcome' = "returned"
    /\ ret' = [NoValue EXCEPT !.int = Len(templates)]
    /\ UNCHANGED <<templates, api_call_id, Frozen>>

Next ==
    \/ InitManager
    \/ \E action_text \in Labels : get_action_id(action_text)
    \/ \E action_id \in ActionIds, slots \in SlotMaps : decode_response(action_id, slots)
    \/ num_of_known_actions

Spec == Init /\ [][Next]_vars

(* ------------------------------ properties ---------------------------- *)

HasMarker(t) == \E i \in 1..Len(t) : MatchesAt(t, i)

HasUpper(t) == \E i \in 1..Len(t) : IsUpper(t[i])

InRange(action_id) == 0 <= action_id /\ action_id < Len(templates)

Decoded == phase = "ready" /\ call.op = "decode_response"

\* the template decode_response read for the last call
TemplateRead == templates[list_getitem(templates, call.action_id).at].template

Rendered(tpl) == generate_text(tpl, call.slots, template_type)

\* position p of t lies in the letters of a marker
InMarkerRun(t, p) ==
    /\ IsLetter(t[p])
    /\ \E s \in 1..(p - 1) : t[s] = "#" /\ \A m \in (s + 1)..p : IsLetter(t[m])

RECURSIVE ExpectedFrom(_, _)
\* position by position: a marker's '#' becomes dontcare, its letters
\* vanish, every other character is kept in lowercase
ExpectedFrom(t, p) ==
    IF p > Len(t) THEN <<>>
    ELSE (IF MatchesAt(t, p) THEN Dontcare
          ELSE IF InMarkerRun(t, p) THEN <<>>
          ELSE <<lower_char(t[p])>>) \o ExpectedFrom(t, p + 1)

LookupErrorKinds == {"LookupError", "IndexError", "KeyError"}

\* C1: the text decode_response returns for the API-call action holds no
\* '#' followed by a letter and no uppercase letter
C1_ApiCallTextClean ==
    (Decoded /\ outcome = "returned" /\ api_call_action # None
        /\ call.action_id = api_call_id)
    => (~HasMarker(ret.text) /\ ~HasUpper(ret.text))

\* C2: get_action_id of the label at position i of the loaded collection
\* returns i
C2_GetActionIdIsPosition ==
    (phase = "ready" /\ call.op = "get_action_id")
    => \A i \in 1..Len(templates) :
           templates[i].action = call.action_text
           => (outcome = "returned" /\ ret.int = i - 1)

C2_Witness ==
    /\ phase = "ready"
    /\ call.op = "get_action_id"
    /\ outcome = "returned"
    /\ ret.int = 1
    /\ templates[2].action = call.action_text

\* C3: decode_response with an action id outside [0, num_of_known_actions())
\* raises IndexError
C3_OutOfRangeRaises ==
    (Decoded /\ ~InRange(call.action_id)) => outcome = "IndexError"

\* C4: constructed without an API-call label, decode_response returns the
\* rendered text of the template unchanged whenever it returns text
C4_NoApiCallTextUnchanged ==
    (Decoded /\ outcome = "returned" /\ api_call_action = None)
    => ret.text = Rendered(TemplateRead)

\* C5: for a valid action id other than the API-call index decode_response
\* returns exactly the rendered text of the template at that id
C5_NonApiTextVerbatim ==
    (Decoded /\ InRange(call.action_id) /\ call.action_id # api_call_id)
    => (outcome = "returned"
        /\ ret.text = Rendered(templates[call.action_id + 1].template))

C5_Witness ==
    /\ Decoded
    /\ outcome = "returned"
    /\ InRange(call.action_id)
    /\ api_call_id >= 0
    /\ call.action_id # api_call_id
    /\ HasUpper(ret.text)
    /\ HasMarker(ret.text)

\* C6: get_action_id of a label that is not loaded ends in an error of the
\* LookupError kind
C6_UnknownLabelLookupError ==
    (phase = "ready" /\ call.op = "get_action_id"
        /\ ~\E i \in 1..Len(templates) : templates[i].action = call.action_text)
    => outcome \in LookupErrorKinds

QueryExampleText == <<"q","u","e","r","y"," ","a","r","e","a","=","d","o","n","t","c","a","r","e"," ","f","o","o","d","=","i","t","a","l","i","a","n">>

C8_MissingSlotsNeverRaise ==
    (Decoded /\ InRange(call.action_id)) => outcome = "returned"

C8_Witness ==
    /\ Decoded
    /\ outcome = "returned"
    /\ call.action_id = Len(templates) - 1
    /\ call.action_id = api_call_id
    /\ call.slots = NoSlots
    /\ \E i \in 1..Len(TemplateRead) : TemplateRead[i].kind = "placeholder"

LoadedActions == Actions(load(source, dup_policy).collection)

\* C9: construction with an API-call label that is not loaded fails;
\* with a loaded label the index is the label's position; a constructed
\* manager's index is the sentinel or lies in [0, num_of_known_actions())
C9_ConstructionIndex ==
    (phase # "new")
    => /\ (api_call_action # None
            /\ ~\E i \in 1..Len(LoadedActions) : LoadedActions[i] = api_call_action)
          => (phase = "failed" /\ ctor_error # "none")
       /\ (phase = "ready" /\ api_call_action # None)
          => (InRange(api_call_id)
              /\ templates[api_call_id + 1].action = api_call_action)
       /\ (phase = "ready")
          => (api_call_id = NoApiCall \/ InRange(api_call_id))

C9_Witness ==
    /\ phase = "failed"
    /\ ctor_error = "ValueError"
    /\ Len(templates) > 0
    /\ api_call_action # None

\* C10: once constructed, no call changes the template collection or the
\* API-call index, num_of_known_actions returns the number of templates
\* loaded at construction, and a repeated call returns the same result
C10_StateFrozen ==
    /\ [](phase = "ready" => templates = load(source, dup_policy).collection)
    /\ []((phase = "ready" /\ call.op = "num_of_known_actions")
            => (outcome = "returned"
                /\ ret.int = Len(load(source, dup_policy).collection)))
    /\ [][phase = "ready"
            => /\ templates' = templates
               /\ api_call_id' = api_call_id
               /\ (call' = call => (outcome' = outcome /\ ret' = ret))]_vars

C10_Witness ==
    /\ phase = "ready"
    /\ call.op = "num_of_known_actions"
    /\ outcome = "returned"
    /\ ret.int = 2

====
